---- MODULE Spec2Model ----
(***************************************************************************)
(* Model of the live session controller of EduTranslate Live (App.tsx):    *)
(* startSession / stopSession / saveToHistory and the four callbacks of    *)
(* the remote live session (onopen, onmessage, onerror, onclose), together *)
(* with the playback scheduling done inside onmessage, and toggleRole and  *)
(* clearHistory on the history list.                                       *)
(*                                                                         *)
(* Every handler runs to completion between two awaits; an await is a      *)
(* point where any other handler may run.  One action of the model is one  *)
(* such run-to-completion segment.                                         *)
(***************************************************************************)
EXTENDS Integers, Sequences, FiniteSets, TLC

\* ---------------------------------------------------------------- bounds
MaxStarts  == 2     \* startSession invocations in one run
LifeMsgs   == 2     \* inbound events delivered in one run of Spec
SchedMsgs  == 2     \* inbound events delivered in one run of SpecSched
TextMsgs   == 3     \* inbound events delivered in one run of SpecText
FaultMsgs  == 2     \* inbound events delivered in one run of SpecFault
RaceMsgs   == 4     \* inbound events delivered in one run of SpecRace
StartMsgs  == 2     \* inbound events delivered in one run of SpecStart
HistMsgs   == 3     \* inbound events delivered in one run of SpecHist
PlayMsgs   == 2     \* inbound events delivered in one run of SpecPlay
MaxTime    == 2     \* largest reading of the output clock
MaxDur     == 2     \* largest duration of one audio chunk
MaxStamp   == 1     \* largest Date.now() reading
MaxIds     == 1     \* number of distinct ids Math.random can produce

Gens    == 1..MaxStarts

\* ------------------------------------------------------------ characters
\* Text is a sequence of UTF-16 code units.
Space   == 32       \* ' '
ThaiKo  == 3585     \* U+0E01
HanNi   == 20320    \* U+4F60
ThaiLo  == 3584     \* U+0E00, first code unit of the class [\u0E00-\u0E7F]
ThaiHi  == 3711     \* U+0E7F, last code unit of the class [\u0E00-\u0E7F]

Chars   == {Space, ThaiKo, HanNi}
Frags   == {<<c>> : c \in Chars}

\* String.prototype.trim removes leading and trailing white space.
WhiteSpace == {9, 10, 11, 12, 13, 32, 160}

RECURSIVE TrimLeft(_)
TrimLeft(s) ==
  IF s = <<>> THEN <<>>
  ELSE IF Head(s) \in WhiteSpace THEN TrimLeft(Tail(s)) ELSE s

RECURSIVE TrimRight(_)
TrimRight(s) ==
  IF s = <<>> THEN <<>>
  ELSE IF s[Len(s)] \in WhiteSpace THEN TrimRight(SubSeq(s, 1, Len(s) - 1)) ELSE s

Trim(s) == TrimRight(TrimLeft(s))

\* a JavaScript string is truthy iff it is not empty
Truthy(s) == s # <<>>

\* the character class without its upper end
MatchThaiOpen(s) == \E i \in 1..Len(s) : s[i] >= ThaiLo

\* input.match(/[\u0E00-\u0E7F]/) is non-null
MatchThai(s) == \E i \in 1..Len(s) : s[i] >= ThaiLo /\ s[i] <= ThaiHi

SourceLang(s) == IF MatchThai(s) THEN "Thai" ELSE "Chinese"

Max(a, b) == IF a >= b THEN a ELSE b

\* ----------------------------------------------------------------- state
VARIABLES
  isRecording, status, errorMessage, transcripts,
  currentInputRef, currentOutputRef,
  sessionRef, streamRef, audioContextInRef, audioContextOutRef,
  nextStartTimeRef, sourcesRef,
  startPc,      \* per startSession invocation: the await it is suspended at
  stream,       \* per invocation: the MediaStream it obtained
  ctxIn,        \* per invocation: its input AudioContext
  ctxOut,       \* per invocation: its output AudioContext
  session,      \* per invocation: the remote session it connected
  srcState,     \* per AudioBufferSourceNode created: playing / stopped / ended
  pending,      \* onmessage handlers suspended at an await
  msgCount,     \* inbound events delivered so far
  clock,        \* last reading of the current output clock
  capture,      \* per invocation: its ScriptProcessorNode, audioprocess event
  thrown,       \* the last handler ended by an uncaught exception
  lastAct,      \* what the last handler did
  sched         \* the last two calls of source.start

ctrlVars == <<isRecording, status, errorMessage, transcripts,
              currentInputRef, currentOutputRef,
              sessionRef, streamRef, audioContextInRef, audioContextOutRef,
              nextStartTimeRef, sourcesRef>>

envVars  == <<startPc, stream, ctxIn, ctxOut, session, srcState, pending,
              msgCount, clock, capture>>

vars == <<ctrlVars, envVars, thrown, lastAct, sched>>

\* n: calls of source.start so far, counted up to 2; start, end: start time
\* and start time plus duration of the last one; id: the arrival number of the
\* event that carried its chunk; prevStart, prevEnd: start and end of the one
\* before it; clean: no interruption and no stopSession ran between those
\* two; dirty: one ran since; first: the arrival number of the event whose
\* interruption was the first of these, or how many events had arrived when
\* a stopSession was the first of these, -1 when none ran.
\* reset: how many events had arrived when the last interruption or
\* stopSession ran, -1 when none did; intr: the arrival number of the event
\* whose interruption ran last, 0 when none did.
\* pure: none ran between the arrival of the last chunk and its source.start;
\* ordered: the chunk before the last one arrived before it, and none ran
\* between the arrival of the one and the arrival of the other
NoSched == [n |-> 0, prevEnd |-> 0, start |-> 0, end |-> 0, clean |-> TRUE,
            dirty |-> FALSE, id |-> 0, prevStart |-> 0, first |-> -1,
            reset |-> -1, intr |-> 0, pure |-> TRUE, ordered |-> FALSE]

\* an interruption that arrived as event a, or a stopSession called when a
\* events had arrived, ran when count events had arrived
Reset(sc, a, count) ==
  [sc EXCEPT !.dirty = (sc.n >= 1),
             !.first = IF sc.n >= 1 /\ @ = -1 THEN a ELSE @,
             !.reset = count]

\* the interruption of the event with arrival number a ran when count events
\* had arrived
Interrupted(sc, a, count) == [Reset(sc, a, count) EXCEPT !.intr = a]

\* What the last handler did.  stop: it ran stopSession; intr: it ran the
\* interruption branch; twice: the handler before it ran the same of the two;
\* flush: it ran saveToHistory, which read the accumulators inp and out;
\* enq: it ran source.start; clear: it ran line 238 of clearHistory;
\* failed: the event whose audio payload it could not decode, 0 when none
NoAct == [stop |-> FALSE, twice |-> FALSE, flush |-> FALSE, inp |-> <<>>,
          out |-> <<>>, intr |-> FALSE, enq |-> FALSE, clear |-> FALSE,
          failed |-> 0]

Init ==
  /\ isRecording = FALSE
  /\ status = "idle"
  /\ errorMessage = ""
  /\ transcripts = <<>>
  /\ currentInputRef = <<>>
  /\ currentOutputRef = <<>>
  /\ sessionRef = 0
  /\ streamRef = 0
  /\ audioContextInRef = 0
  /\ audioContextOutRef = 0
  /\ nextStartTimeRef = 0
  /\ sourcesRef = {}
  /\ startPc = [g \in Gens |-> "none"]
  /\ stream = [g \in Gens |-> "none"]
  /\ ctxIn = [g \in Gens |-> "none"]
  /\ ctxOut = [g \in Gens |-> "none"]
  /\ session = [g \in Gens |-> "none"]
  /\ srcState = <<>>
  /\ pending = {}
  /\ msgCount = 0
  /\ clock = 0
  /\ capture = [g \in Gens |-> "none"]
  /\ thrown = FALSE
  /\ lastAct = NoAct
  /\ sched = NoSched

\* ---------------------------------------------------------- saveToHistory
\* saveToHistory without the test of line 91
AlwaysSave(input, output) == TRUE

\* the condition of line 91
ShouldSave(input, output) == Truthy(Trim(input)) \/ Truthy(Trim(output))

\* the object literal of lines 92-99
NewEntry(input, output, id, ts) ==
  [id |-> id, timestamp |-> ts, text |-> input, translation |-> output,
   sourceLang |-> SourceLang(input), role |-> "Professor"]

\* saveToHistory with [entry, ...prev] for [...prev, entry]
PrependedHistory(hist, input, output, id, ts) ==
  IF ShouldSave(input, output)
  THEN <<NewEntry(input, output, id, ts)>> \o hist
  ELSE hist

\* transcripts after saveToHistory ran on the accumulators input, output
SavedHistory(hist, input, output, id, ts) ==
  IF ShouldSave(input, output)
  THEN Append(hist, NewEntry(input, output, id, ts))
  ELSE hist

\* saveToHistory without lines 101-102
KeptText == currentInputRef

\* lines 101-102: the value both accumulators are reset to
ClearedText == <<>>

\* Date.now() does not run backwards: the readings it can give, out of TS
Stamps(TS) == {t \in TS :
             transcripts = <<>> \/ t >= transcripts[Len(transcripts)].timestamp}

Ids == 1..MaxIds

\* ------------------------------------------------------------ stopSession
TeardownOps == {"sessionClose", "trackStop", "ctxInClose", "ctxOutClose",
                "sourceStop"}

\* source.stop() inside try/catch, for every source of the set srcs
StopSources(st, srcs, fails) ==
  [s \in DOMAIN st |->
     IF s \in srcs /\ st[s] = "playing" /\ "sourceStop" \notin fails
     THEN "stopped" ELSE st[s]]

\* session.close(): an open socket starts its closing handshake
CloseSession(sess, g) ==
  [sess EXCEPT ![g] = IF @ \in {"connecting", "open"} THEN "closing" ELSE @]

\* the scheduler reset without lines 131 and 214
StaleStartTime == nextStartTimeRef

\* lines 127-131 and 212-214 reset the scheduler to these values
ResetStartTime == 0
ResetSources == {}

\* track.stop() of line 116 is not inside a try: when it throws, the rest of
\* stopSession is skipped
StopThrows(fails) == streamRef # 0 /\ "trackStop" \in fails

\* stopSession without line 108
NoFlushOnStop(hist, input, output, id, ts) == hist

\* line 108: stopSession starts with saveToHistory
FlushOnStop(hist, input, output, id, ts) ==
  SavedHistory(hist, input, output, id, ts)

\* stopSession, lines 107-132.  sess is the state of the sessions when it is
\* called; fails is the set of teardown operations that fail in this call.
StopSession(sess, fails, id, ts) ==
  LET threw == StopThrows(fails) IN
  /\ transcripts' = FlushOnStop(transcripts, currentInputRef,
                                currentOutputRef, id, ts)
  /\ currentInputRef' = ClearedText
  /\ currentOutputRef' = ClearedText
  /\ isRecording' = FALSE
  /\ status' = "idle"
  /\ session' = IF sessionRef # 0 /\ "sessionClose" \notin fails
                THEN CloseSession(sess, sessionRef) ELSE sess
  /\ sessionRef' = 0
  /\ stream' = IF streamRef # 0 /\ ~threw
               THEN [stream EXCEPT ![streamRef] = "stopped"] ELSE stream
  /\ streamRef' = IF threw THEN streamRef ELSE 0
  /\ ctxIn' = IF audioContextInRef # 0 /\ ~threw /\ "ctxInClose" \notin fails
              THEN [ctxIn EXCEPT ![audioContextInRef] = "closed"] ELSE ctxIn
  /\ audioContextInRef' = IF threw THEN audioContextInRef ELSE 0
  /\ ctxOut' = IF audioContextOutRef # 0 /\ ~threw /\ "ctxOutClose" \notin fails
               THEN [ctxOut EXCEPT ![audioContextOutRef] = "closed"] ELSE ctxOut
  /\ audioContextOutRef' = IF threw THEN audioContextOutRef ELSE 0
  /\ srcState' = IF threw THEN srcState
                 ELSE StopSources(srcState, sourcesRef, fails)
  /\ sourcesRef' = IF threw THEN sourcesRef ELSE ResetSources
  /\ nextStartTimeRef' = IF threw THEN nextStartTimeRef ELSE ResetStartTime
  /\ thrown' = threw
  /\ sched' = Reset(sched, msgCount, msgCount)

StopAct ==
  [NoAct EXCEPT !.stop = TRUE, !.twice = lastAct.stop,
                !.flush = TRUE, !.inp = currentInputRef,
                !.out = currentOutputRef]

\* the Stop Live button, lines 334-337, is rendered while isRecording
UserStop(fails, id, ts) ==
  /\ isRecording
  /\ StopSession(session, fails, id, ts)
  /\ lastAct' = StopAct
  /\ UNCHANGED <<errorMessage, startPc, pending, msgCount, clock, capture>>

\* ----------------------------------------------------------- startSession
\* the Connect Live button, lines 330-333, is rendered while ~isRecording;
\* lines 136-140 up to the await of getUserMedia
StartSession(g) ==
  /\ ~isRecording
  /\ startPc[g] = "none"
  /\ \A h \in Gens : h < g => startPc[h] # "none"
  /\ status' = "connecting"
  /\ errorMessage' = ""
  /\ startPc' = [startPc EXCEPT ![g] = "getUserMedia"]
  /\ thrown' = FALSE
  /\ lastAct' = NoAct
  /\ UNCHANGED <<isRecording, transcripts, currentInputRef, currentOutputRef,
                 sessionRef, streamRef, audioContextInRef, audioContextOutRef,
                 nextStartTimeRef, sourcesRef, stream, ctxIn, ctxOut, session,
                 srcState, pending, msgCount, clock, capture, sched>>

\* the catch block without line 227
CatchQuiet(g) ==
  /\ errorMessage' = errorMessage
  /\ status' = "error"
  /\ startPc' = [startPc EXCEPT ![g] = "done"]

\* the catch block, lines 226-229
CatchStart(g) ==
  /\ errorMessage' = "Microphone error or connection failed."
  /\ status' = "error"
  /\ startPc' = [startPc EXCEPT ![g] = "done"]

\* getUserMedia settles: lines 140-148 up to the await of ctxOut.resume(), or
\* the catch block when it rejects or an AudioContext cannot be created
GetUserMediaDone(g, r) ==
  /\ startPc[g] = "getUserMedia"
  /\ thrown' = FALSE
  /\ lastAct' = NoAct
  /\ UNCHANGED <<isRecording, transcripts, currentInputRef, currentOutputRef,
                 sessionRef, nextStartTimeRef, sourcesRef, session, srcState,
                 pending, msgCount, capture, sched>>
  /\ \/ /\ r = "ok"
        /\ stream' = [stream EXCEPT ![g] = "live"]
        /\ streamRef' = g
        /\ ctxIn' = [ctxIn EXCEPT ![g] = "running"]
        /\ ctxOut' = [ctxOut EXCEPT ![g] = "running"]
        /\ audioContextInRef' = g
        /\ audioContextOutRef' = g
        /\ clock' = 0
        /\ startPc' = [startPc EXCEPT ![g] = "resume"]
        /\ UNCHANGED <<status, errorMessage>>
     \/ /\ r = "denied"
        /\ CatchStart(g)
        /\ UNCHANGED <<stream, streamRef, ctxIn, ctxOut, audioContextInRef,
                       audioContextOutRef, clock>>
     \/ /\ r = "noclock"
        /\ stream' = [stream EXCEPT ![g] = "live"]
        /\ streamRef' = g
        /\ CatchStart(g)
        /\ UNCHANGED <<ctxIn, ctxOut, audioContextInRef, audioContextOutRef,
                       clock>>

\* ctxOut.resume() settles: it rejects on a context closed meanwhile;
\* otherwise line 153 calls ai.live.connect and line 225 awaits its promise
ResumeDone(g) ==
  /\ startPc[g] = "resume"
  /\ thrown' = FALSE
  /\ lastAct' = NoAct
  /\ UNCHANGED <<isRecording, transcripts, currentInputRef, currentOutputRef,
                 sessionRef, streamRef, audioContextInRef, audioContextOutRef,
                 nextStartTimeRef, sourcesRef, stream, ctxIn, ctxOut, srcState,
                 pending, msgCount, clock, capture, sched>>
  /\ IF ctxOut[g] = "closed"
     THEN CatchStart(g) /\ UNCHANGED session
     ELSE /\ session' = [session EXCEPT ![g] = "connecting"]
          /\ startPc' = [startPc EXCEPT ![g] = "connect"]
          /\ UNCHANGED <<status, errorMessage>>

\* the promise of ai.live.connect rejects: the catch block
ConnectRejected(g) ==
  /\ startPc[g] = "connect"
  /\ session[g] = "connecting"
  /\ session' = [session EXCEPT ![g] = "closed"]
  /\ CatchStart(g)
  /\ thrown' = FALSE
  /\ lastAct' = NoAct
  /\ UNCHANGED <<isRecording, transcripts, currentInputRef, currentOutputRef,
                 sessionRef, streamRef, audioContextInRef, audioContextOutRef,
                 nextStartTimeRef, sourcesRef, stream, ctxIn, ctxOut, srcState,
                 pending, msgCount, clock, capture, sched>>

\* ---------------------------------------------------------------- onopen
\* lines 165-182, followed in the same task by the continuation of the await
\* of line 225, which the open event resolves; lines 168-181 connect the
\* ScriptProcessorNode that captures the microphone
OnOpen(g) ==
  /\ startPc[g] = "connect"
  /\ session[g] = "connecting"
  /\ session' = [session EXCEPT ![g] = "open"]
  /\ capture' = [capture EXCEPT ![g] = "idle"]
  /\ status' = "listening"
  /\ isRecording' = TRUE
  /\ sessionRef' = g
  /\ startPc' = [startPc EXCEPT ![g] = "done"]
  /\ thrown' = FALSE
  /\ lastAct' = NoAct
  /\ UNCHANGED <<errorMessage, transcripts, currentInputRef, currentOutputRef,
                 streamRef, audioContextInRef, audioContextOutRef,
                 nextStartTimeRef, sourcesRef, stream, ctxIn, ctxOut, srcState,
                 pending, msgCount, clock, sched>>

\* --------------------------------------------------------------- onerror
\* lines 217-221; the socket that raised the error closes afterwards, and a
\* connect promise still pending on it never settles
OnError(g, fails, id, ts) ==
  /\ session[g] \in {"connecting", "open"}
  /\ errorMessage' = "Translation service error."
  /\ StopSession([session EXCEPT ![g] = "errored"], fails, id, ts)
  /\ startPc' = [startPc EXCEPT ![g] = IF @ = "connect" THEN "done" ELSE @]
  /\ lastAct' = StopAct
  /\ UNCHANGED <<pending, msgCount, clock, capture>>

\* --------------------------------------------------------------- onclose
\* line 222: the close event of a socket closed by either side
OnClose(g, fails, id, ts) ==
  /\ session[g] \in {"open", "closing", "errored"}
  /\ StopSession([session EXCEPT ![g] = "closed"], fails, id, ts)
  /\ lastAct' = StopAct
  /\ UNCHANGED <<errorMessage, startPc, pending, msgCount, clock, capture>>

\* ------------------------------------------------------------- onmessage
\* An inbound event.  audio: 0 when it carries no inlineData, -1 when the
\* payload cannot be decoded, else the duration of the decoded buffer.
NoAudio  == 0
BadAudio == -1

Event(audio, hasIn, inText, hasOut, outText, turnComplete, interrupted) ==
  [audio |-> audio, hasIn |-> hasIn, inText |-> inText, hasOut |-> hasOut,
   outText |-> outText, turnComplete |-> turnComplete,
   interrupted |-> interrupted]

Plain == Event(NoAudio, FALSE, <<>>, FALSE, <<>>, FALSE, FALSE)

\* line 188 without the max
StartTimeNow(next, now) == now

\* line 188
StartTime(next, now) == Max(next, now)

\* line 195 with -= for +=
RewindTime(next, duration) == next - duration

\* line 195
AdvanceTime(next, duration) == next + duration

\* lines 198-207: the accumulators after the fragments of m were appended
InputAfter(m)  == IF m.hasIn THEN currentInputRef \o m.inText
                  ELSE currentInputRef
OutputAfter(m) == IF m.hasOut THEN currentOutputRef \o m.outText
                  ELSE currentOutputRef

\* lines 198-215, run with next, srcs and st as the scheduler state that the
\* audio part of the handler left
Rest(m, next, srcs, st, id, ts) ==
  /\ transcripts' = IF m.turnComplete
                    THEN SavedHistory(transcripts, InputAfter(m),
                                      OutputAfter(m), id, ts)
                    ELSE transcripts
  /\ currentInputRef' = IF m.turnComplete THEN ClearedText ELSE InputAfter(m)
  /\ currentOutputRef' = IF m.turnComplete THEN ClearedText
                         ELSE OutputAfter(m)
  /\ srcState' = IF m.interrupted THEN StopSources(st, srcs, {}) ELSE st
  /\ sourcesRef' = IF m.interrupted THEN ResetSources ELSE srcs
  /\ nextStartTimeRef' = IF m.interrupted THEN ResetStartTime ELSE next

MsgAct(m, enq) ==
  [NoAct EXCEPT !.twice = lastAct.intr /\ m.interrupted,
                !.flush = m.turnComplete,
                !.inp = IF m.turnComplete THEN InputAfter(m) ELSE <<>>,
                !.out = IF m.turnComplete THEN OutputAfter(m) ELSE <<>>,
                !.intr = m.interrupted, !.enq = enq]

\* onmessage with a catch that reports the exception as a failed session
ErrorOnThrow == "error"

\* lines 183-216 have no try: an exception that leaves the handler rejects
\* the promise it returned, which nobody reads; the status stays what it was
StatusOnThrow == status

\* line 189 threw on the payload of event m: lines 190-215 are skipped
ThrowAct(m) == [NoAct EXCEPT !.failed = m]

\* readings the output clock of context c can give
Readings(c) == IF c = audioContextOutRef THEN clock..MaxTime ELSE 0..MaxTime

ClockAfter(c, t) == IF c = audioContextOutRef THEN t ELSE clock

Handler(id, pc, m, c) == [id |-> id, pc |-> pc, msg |-> m, ctx |-> c]

\* an event is delivered: the handler runs up to its first await, line 187
\* or line 189, or to its end when it has no audio to play.
\* susp: ctx.state is 'suspended'; t: the reading of ctx.currentTime
OnMessage(g, m, susp, t, id, ts) ==
  /\ session[g] \in {"open", "closing"}
  /\ msgCount' = msgCount + 1
  /\ UNCHANGED <<isRecording, errorMessage, sessionRef, streamRef,
                 audioContextInRef, audioContextOutRef, startPc, stream,
                 ctxIn, ctxOut, session, capture>>
  /\ IF m.audio # NoAudio /\ audioContextOutRef # 0
     THEN /\ UNCHANGED <<transcripts, currentInputRef, currentOutputRef,
                         sourcesRef, srcState, sched>>
          /\ lastAct' = IF ~susp /\ m.audio = BadAudio THEN ThrowAct(m)
                         ELSE NoAct
          /\ IF susp
             THEN /\ pending' = pending \cup
                       {Handler(msgCount + 1, "resume", m, audioContextOutRef)}
                  /\ thrown' = FALSE
                  /\ UNCHANGED <<nextStartTimeRef, clock>>
             ELSE /\ t \in Readings(audioContextOutRef)
                  /\ nextStartTimeRef' = StartTime(nextStartTimeRef, t)
                  /\ clock' = t
                  /\ thrown' = (m.audio = BadAudio)
                  /\ pending' = IF m.audio = BadAudio THEN pending
                                ELSE pending \cup {Handler(msgCount + 1,
                                       "decode", m, audioContextOutRef)}
     ELSE /\ Rest(m, nextStartTimeRef, sourcesRef, srcState, id, ts)
          /\ sched' = IF m.interrupted
                      THEN Interrupted(sched, msgCount + 1, msgCount + 1)
                      ELSE sched
          /\ thrown' = FALSE
          /\ lastAct' = MsgAct(m, FALSE)
          /\ UNCHANGED <<pending, clock>>
  /\ status' = IF thrown' THEN StatusOnThrow ELSE status

\* ctx.resume() of line 187 settles: line 188 and the call of line 189
MsgResumeDone(h, t) ==
  /\ h \in pending
  /\ h.pc = "resume"
  /\ lastAct' = IF ctxOut[h.ctx] # "closed" /\ h.msg.audio = BadAudio
                THEN ThrowAct(h.msg) ELSE NoAct
  /\ UNCHANGED <<isRecording, errorMessage, transcripts,
                 currentInputRef, currentOutputRef, sessionRef, streamRef,
                 audioContextInRef, audioContextOutRef, sourcesRef, startPc,
                 stream, ctxIn, ctxOut, session, srcState, msgCount, capture,
                 sched>>
  /\ IF ctxOut[h.ctx] = "closed"
     THEN /\ pending' = pending \ {h}
          /\ thrown' = TRUE
          /\ UNCHANGED <<nextStartTimeRef, clock>>
     ELSE /\ t \in Readings(h.ctx)
          /\ nextStartTimeRef' = StartTime(nextStartTimeRef, t)
          /\ clock' = ClockAfter(h.ctx, t)
          /\ thrown' = (h.msg.audio = BadAudio)
          /\ pending' = IF h.msg.audio = BadAudio THEN pending \ {h}
                        ELSE (pending \ {h}) \cup
                             {Handler(h.id, "decode", h.msg, h.ctx)}
  /\ status' = IF thrown' THEN StatusOnThrow ELSE status

\* the sched record after source.start(start) of a buffer of that duration,
\* carried by the event with arrival number a
Scheduled(start, duration, a) ==
  [n |-> IF sched.n < 2 THEN sched.n + 1 ELSE 2, prevEnd |-> sched.end,
   start |-> start, end |-> start + duration, clean |-> ~sched.dirty,
   dirty |-> FALSE, id |-> a, prevStart |-> sched.start, first |-> -1,
   reset |-> sched.reset, intr |-> sched.intr, pure |-> sched.reset < a,
   ordered |-> /\ sched.n >= 1
               /\ sched.pure
               /\ sched.id < a
               /\ (sched.first = -1 \/ sched.first >= a)]

\* lines 190-194: a new source node, started
Started(st, s) ==
  [x \in DOMAIN st \cup {s} |-> IF x = s THEN "playing" ELSE st[x]]

\* decodeAudioData of line 189 settles: lines 190-196, then lines 198-215
MsgDecodeDone(h, id, ts) ==
  /\ h \in pending
  /\ h.pc = "decode"
  /\ pending' = pending \ {h}
  /\ Rest(h.msg, AdvanceTime(nextStartTimeRef, h.msg.audio),
          sourcesRef \cup {h.id},
          Started(srcState, h.id), id, ts)
  /\ sched' = IF h.msg.interrupted
              THEN Interrupted(Scheduled(nextStartTimeRef, h.msg.audio, h.id),
                               h.id, msgCount)
              ELSE Scheduled(nextStartTimeRef, h.msg.audio, h.id)
  /\ thrown' = FALSE
  /\ lastAct' = MsgAct(h.msg, TRUE)
  /\ UNCHANGED <<isRecording, status, errorMessage, sessionRef, streamRef,
                 audioContextInRef, audioContextOutRef, startPc, stream,
                 ctxIn, ctxOut, session, msgCount, clock, capture>>

\* a source node whose 'ended' listener does not run line 193
SourceEndedKeeps(s) ==
  /\ s \in DOMAIN srcState
  /\ srcState[s] \in {"playing", "stopped"}
  /\ srcState' = [srcState EXCEPT ![s] = "ended"]
  /\ sourcesRef' = sourcesRef
  /\ thrown' = FALSE
  /\ lastAct' = NoAct
  /\ UNCHANGED <<isRecording, status, errorMessage, transcripts,
                 currentInputRef, currentOutputRef, sessionRef, streamRef,
                 audioContextInRef, audioContextOutRef, nextStartTimeRef,
                 startPc, stream, ctxIn, ctxOut, session, pending, msgCount,
                 clock, capture, sched>>

\* the 'ended' listener of line 193: playback ran to its end or was stopped
SourceEnded(s) ==
  /\ s \in DOMAIN srcState
  /\ srcState[s] \in {"playing", "stopped"}
  /\ srcState' = [srcState EXCEPT ![s] = "ended"]
  /\ sourcesRef' = sourcesRef \ {s}
  /\ thrown' = FALSE
  /\ lastAct' = NoAct
  /\ UNCHANGED <<isRecording, status, errorMessage, transcripts,
                 currentInputRef, currentOutputRef, sessionRef, streamRef,
                 audioContextInRef, audioContextOutRef, nextStartTimeRef,
                 startPc, stream, ctxIn, ctxOut, session, pending, msgCount,
                 clock, capture, sched>>

\* ------------------------------------------------------- onaudioprocess
\* the rendering thread of the input AudioContext has filled a buffer of the
\* ScriptProcessorNode of line 169 and queues its audioprocess event
FrameCaptured(g) ==
  /\ capture[g] = "idle"
  /\ ctxIn[g] = "running"
  /\ capture' = [capture EXCEPT ![g] = "queued"]
  /\ thrown' = FALSE
  /\ lastAct' = NoAct
  /\ UNCHANGED <<ctrlVars, startPc, stream, ctxIn, ctxOut, session, srcState,
                 pending, msgCount, clock, sched>>

\* lines 170-179: the callback of the queued event makes the blob of the
\* frame, and the callback given to sessionPromise.then, which is resolved
\* since onopen, calls session.sendRealtimeInput on the session of this
\* invocation
OnAudioProcess(g) ==
  /\ capture[g] = "queued"
  /\ capture' = [capture EXCEPT ![g] = "idle"]
  /\ thrown' = FALSE
  /\ lastAct' = NoAct
  /\ UNCHANGED <<ctrlVars, startPc, stream, ctxIn, ctxOut, session, srcState,
                 pending, msgCount, clock, sched>>

\* ------------------------------------------------------------ the history
\* line 233: the other role
Flipped(role) == IF role = "Professor" THEN "Student" ELSE "Professor"

\* line 233: prev.map over the entries, those with this id get the other role
Toggled(hist, id) ==
  [i \in 1..Len(hist) |->
     IF hist[i].id = id THEN [hist[i] EXCEPT !.role = Flipped(@)]
     ELSE hist[i]]

\* toggleRole, lines 232-234; the button of line 417 belongs to an entry of
\* the list
ToggleRole(id) ==
  /\ \E i \in 1..Len(transcripts) : transcripts[i].id = id
  /\ transcripts' = Toggled(transcripts, id)
  /\ thrown' = FALSE
  /\ lastAct' = NoAct
  /\ UNCHANGED <<isRecording, status, errorMessage, currentInputRef,
                 currentOutputRef, sessionRef, streamRef, audioContextInRef,
                 audioContextOutRef, nextStartTimeRef, sourcesRef, envVars,
                 sched>>

\* clearHistory, lines 236-241; ok: the answer to window.confirm
ClearHistory(ok) ==
  /\ transcripts' = IF ok THEN <<>> ELSE transcripts
  /\ thrown' = FALSE
  /\ lastAct' = [NoAct EXCEPT !.clear = ok]
  /\ UNCHANGED <<isRecording, status, errorMessage, currentInputRef,
                 currentOutputRef, sessionRef, streamRef, audioContextInRef,
                 audioContextOutRef, nextStartTimeRef, sourcesRef, envVars,
                 sched>>

\* ------------------------------------------------------------ the inputs
Durations == 1..MaxDur

AudioEvent(d) == [Plain EXCEPT !.audio = d]
InputEvent(f) == [Plain EXCEPT !.hasIn = TRUE, !.inText = f]
OutputEvent(f) == [Plain EXCEPT !.hasOut = TRUE, !.outText = f]
TurnEvent == [Plain EXCEPT !.turnComplete = TRUE]
InterruptEvent == [Plain EXCEPT !.interrupted = TRUE]

StartResults == {"ok", "denied", "noclock"}

\* ----------------------------------------------------- the specification
\* The controller under user clicks, remote callbacks and platform events.
\* G: startSession invocations; R: outcomes of acquiring the devices;
\* E: inbound events; limit: how many are delivered; S: whether the output
\* clock is found suspended; T: clock readings; F: failing teardown
\* operations; I: values of Math.random; TS: readings of Date.now
Step(G, R, E, limit, S, T, F, I, TS) ==
  \/ \E g \in G : StartSession(g)
  \/ \E g \in G, r \in R : GetUserMediaDone(g, r)
  \/ \E g \in G : ResumeDone(g)
  \/ \E g \in G : ConnectRejected(g)
  \/ \E g \in G : OnOpen(g)
  \/ /\ msgCount < limit
     /\ \E g \in G, m \in E, susp \in S, t \in T, id \in I,
           ts \in Stamps(TS) : OnMessage(g, m, susp, t, id, ts)
  \/ \E h \in pending, t \in T : MsgResumeDone(h, t)
  \/ \E h \in pending, id \in I, ts \in Stamps(TS) : MsgDecodeDone(h, id, ts)
  \/ \E s \in DOMAIN srcState : SourceEnded(s)
  \/ \E f \in F, id \in I, ts \in Stamps(TS) : UserStop(f, id, ts)
  \/ \E g \in G, f \in F, id \in I, ts \in Stamps(TS) : OnError(g, f, id, ts)
  \/ \E g \in G, f \in F, id \in I, ts \in Stamps(TS) : OnClose(g, f, id, ts)

\* Spec: the whole life cycle, with up to MaxStarts startSession invocations
LifeEvents == {AudioEvent(1), InputEvent(<<ThaiKo>>)}

Next ==
  Step(Gens, StartResults, LifeEvents, LifeMsgs, BOOLEAN, {1}, {{}}, {1}, {0})

Spec == Init /\ [][Next]_vars

\* SpecSched: one session and the playback scheduler under chunks of every
\* duration, every clock reading and interruptions
SchedEvents == {AudioEvent(d) : d \in Durations \cup {BadAudio}}
                 \cup {InterruptEvent}
                 \cup {[AudioEvent(1) EXCEPT !.interrupted = TRUE]}

NextSched ==
  Step({1}, {"ok"}, SchedEvents, SchedMsgs, BOOLEAN, 0..MaxTime, {{}}, {1},
       {0})

SpecSched == Init /\ [][NextSched]_vars

\* SpecText: one session and the transcript accumulators under every
\* fragment; the turn-complete signal comes alone or with an audio chunk
TextEvents == {InputEvent(f) : f \in Frags} \cup {OutputEvent(f) : f \in Frags}
                \cup {TurnEvent, [TurnEvent EXCEPT !.audio = 1]}

NextText ==
  Step({1}, {"ok"}, TextEvents, TextMsgs, BOOLEAN, {0}, {{}}, {1}, {0})

SpecText == Init /\ [][NextText]_vars

\* SpecFault: one session, every combination of failing teardown operations
NextFault ==
  Step({1}, {"ok"}, LifeEvents, FaultMsgs, BOOLEAN, {1}, SUBSET TeardownOps,
       Ids, 0..MaxStamp)

SpecFault == Init /\ [][NextFault]_vars

\* SpecStart: one startSession under every outcome of acquiring the devices
\* and of connecting
NextStart ==
  Step({1}, StartResults, LifeEvents, StartMsgs, BOOLEAN, {1}, {{}}, {1}, {0})

SpecStart == Init /\ [][NextStart]_vars

\* SpecHist: one session and the history list under turns of two texts, role
\* toggles and clearHistory
HistEvents == {InputEvent(<<ThaiKo>>), InputEvent(<<HanNi>>), TurnEvent,
               AudioEvent(1)}

NextHist ==
  \/ Step({1}, {"ok"}, HistEvents, HistMsgs, BOOLEAN, {0}, {{}}, Ids,
          0..MaxStamp)
  \/ \E id \in Ids : ToggleRole(id)
  \/ \E ok \in BOOLEAN : ClearHistory(ok)

SpecHist == Init /\ [][NextHist]_vars

\* SpecRace: one session whose events carry an audio chunk together with a
\* transcript fragment, so that the awaits of lines 187 and 189 stand between
\* the arrival of an event and lines 198-215 of its handler
ChunkWithText == [AudioEvent(1) EXCEPT !.hasIn = TRUE, !.inText = <<ThaiKo>>]

RaceEvents == {ChunkWithText, AudioEvent(MaxDur), InputEvent(<<HanNi>>),
               InterruptEvent}

NextRace ==
  Step({1}, {"ok"}, RaceEvents, RaceMsgs, BOOLEAN, {0}, {{}}, {1}, {0})

SpecRace == Init /\ [][NextRace]_vars

\* SpecCapture: one session and the capture of the microphone
NextCapture ==
  \/ Step({1}, {"ok"}, LifeEvents, LifeMsgs, BOOLEAN, {1}, {{}}, {1}, {0})
  \/ \E g \in {1} : FrameCaptured(g)
  \/ \E g \in {1} : OnAudioProcess(g)

SpecCapture == Init /\ [][NextCapture]_vars

\* SpecDecode: one session whose events carry an audio payload that cannot
\* be decoded together with a fragment, a turn-complete or an interruption
BadChunk == AudioEvent(BadAudio)

DecodeEvents == {[BadChunk EXCEPT !.hasIn = TRUE, !.inText = <<HanNi>>],
                 [BadChunk EXCEPT !.turnComplete = TRUE],
                 [BadChunk EXCEPT !.interrupted = TRUE],
                 InputEvent(<<ThaiKo>>), AudioEvent(1)}

NextDecode ==
  Step({1}, {"ok"}, DecodeEvents, LifeMsgs, BOOLEAN, {0}, {{}}, {1}, {0})

SpecDecode == Init /\ [][NextDecode]_vars

\* SpecPlay: one session under chunks and interruptions, in which the
\* playback of every started source ends: the 'ended' event of a source that
\* was started is dispatched at some time.  The sources are numbered by the
\* arrival of their events.
PlayEvents == {AudioEvent(1), InterruptEvent}

Handles == 1..PlayMsgs

NextPlay ==
  Step({1}, {"ok"}, PlayEvents, PlayMsgs, BOOLEAN, {0}, {{}}, {1}, {0})

PlaybackEnds == \A s \in Handles : WF_vars(SourceEnded(s))

SpecPlay == Init /\ [][NextPlay]_vars /\ PlaybackEnds

\* ------------------------------------------------------------ the claims
\* the text has a character that trim() does not remove
NonBlank(s) == \E i \in 1..Len(s) : s[i] \notin WhiteSpace

HasThai(s) == \E i \in 1..Len(s) : s[i] \in 3584..3711

\* the step appended exactly one entry, made of the texts inp and out
AppendedOne(inp, out) ==
  /\ Len(transcripts') = Len(transcripts) + 1
  /\ SubSeq(transcripts', 1, Len(transcripts)) = transcripts
  /\ LET e == transcripts'[Len(transcripts')] IN
       /\ e.text = inp
       /\ e.translation = out
       /\ e.sourceLang = IF HasThai(inp) THEN "Thai" ELSE "Chinese"

Cleared == currentInputRef' = <<>> /\ currentOutputRef' = <<>>

\* C1, as stated: the start time given to each chunk is at least the start
\* time plus duration of the chunk enqueued before it.
C1_Original == sched.n >= 2 => sched.start >= sched.prevEnd

\* C1, as amended: the start time given to each chunk is at least the start
\* time plus duration of the chunk enqueued before it, when no interruption
\* and no stopSession ran between the two enqueues.
C1_NoOverlap == sched.n >= 2 /\ sched.clean => sched.start >= sched.prevEnd

C1_Witness ==
  /\ lastAct.enq
  /\ sched.n >= 2
  /\ sched.clean
  /\ sched.prevEnd > 0
  /\ sched.start >= sched.prevEnd

\* C2: an interruption stops every playback handle in flight and leaves the
\* in-flight set empty and nextScheduledStartTime 0; a second interruption
\* right after it changes nothing and does not raise.
C2_Interrupt ==
  [][lastAct'.intr =>
       /\ sourcesRef' = {}
       /\ nextStartTimeRef' = 0
       /\ \A x \in sourcesRef : srcState'[x] # "playing"
       /\ \A x \in DOMAIN srcState' : srcState'[x] # "playing"
       /\ ~thrown'
       /\ (lastAct.intr /\ ~lastAct'.enq =>
             UNCHANGED <<ctrlVars, stream, ctxIn, ctxOut, session, srcState,
                         pending>>)]_vars

C2_Witness ==
  /\ lastAct.intr
  /\ lastAct.twice
  /\ \E x \in DOMAIN srcState : srcState[x] = "stopped"
  /\ sourcesRef = {}

\* C3, as stated: a turn-complete signal received while either accumulator is
\* non-empty appends exactly one entry holding the two accumulated texts,
\* tagged Thai iff the source text has a character in U+0E00..U+0E7F, and
\* clears both accumulators.
C3_Original ==
  [][lastAct'.flush /\ ~lastAct'.stop
       /\ (lastAct'.inp # <<>> \/ lastAct'.out # <<>>)
     => AppendedOne(lastAct'.inp, lastAct'.out) /\ Cleared]_vars

\* C3, as amended: the same, for accumulators of which at least one is not
\* empty after trimming white space.
C3_TurnComplete ==
  [][lastAct'.flush /\ ~lastAct'.stop
       /\ (NonBlank(lastAct'.inp) \/ NonBlank(lastAct'.out))
     => AppendedOne(lastAct'.inp, lastAct'.out) /\ Cleared]_vars

C3_Witness ==
  /\ lastAct.flush
  /\ ~lastAct.stop
  /\ NonBlank(lastAct.inp)
  /\ HasThai(lastAct.inp)
  /\ Len(lastAct.inp) = 2
  /\ Len(transcripts) = 1
  /\ transcripts[1].sourceLang = "Thai"
  /\ transcripts[1].text = lastAct.inp
  /\ currentInputRef = <<>>

\* C4: every entry of the history has a non-empty text or a non-empty
\* translation; a turn-complete signal or a stopSession that finds both
\* accumulators empty appends no entry.
C4_NoEmptyEntry ==
  [][/\ \A i \in 1..Len(transcripts') :
          transcripts'[i].text # <<>> \/ transcripts'[i].translation # <<>>
     /\ (lastAct'.flush /\ lastAct'.inp = <<>> /\ lastAct'.out = <<>>
           => transcripts' = transcripts)]_vars

C4_Witness ==
  /\ lastAct.flush
  /\ lastAct.inp = <<>>
  /\ lastAct.out = <<>>
  /\ Len(transcripts) >= 1

\* C5: a stopSession that runs right after another one does not raise,
\* appends no entry and leaves the controller state and its resources as the
\* first one left them.
C5_StopTwice ==
  [][lastAct.stop /\ lastAct'.stop =>
       /\ ~thrown'
       /\ UNCHANGED <<isRecording, status, transcripts, currentInputRef,
                      currentOutputRef, sessionRef, streamRef,
                      audioContextInRef, audioContextOutRef, nextStartTimeRef,
                      sourcesRef, stream, ctxIn, ctxOut, srcState, pending>>
     ]_vars

C5_Witness ==
  /\ lastAct.stop
  /\ lastAct.twice
  /\ Len(transcripts) = 1
  /\ status = "idle"

\* C6, as stated: a stopSession that finds either accumulator non-empty
\* appends the two accumulated texts as exactly one entry and clears both.
C6_Original ==
  [][lastAct'.stop /\ (lastAct'.inp # <<>> \/ lastAct'.out # <<>>)
     => AppendedOne(lastAct'.inp, lastAct'.out) /\ Cleared]_vars

\* C6, as amended: the same, for accumulators of which at least one is not
\* empty after trimming white space.
C6_StopFlushes ==
  [][lastAct'.stop /\ (NonBlank(lastAct'.inp) \/ NonBlank(lastAct'.out))
     => AppendedOne(lastAct'.inp, lastAct'.out) /\ Cleared]_vars

C6_Witness ==
  /\ lastAct.stop
  /\ NonBlank(lastAct.out)
  /\ ~NonBlank(lastAct.inp)
  /\ Len(transcripts) >= 1
  /\ transcripts[Len(transcripts)].translation = lastAct.out
  /\ currentOutputRef = <<>>

\* C7: when stopSession returns the status is idle, the recording flag is
\* false, no remote session of this controller is open or referenced, no
\* microphone stream is live or referenced, no audio clock is running or
\* referenced, the in-flight set is empty and nextScheduledStartTime is 0.
C7_StopReleasesAll ==
  [][lastAct'.stop =>
       /\ status' = "idle"
       /\ ~isRecording'
       /\ sessionRef' = 0
       /\ \A g \in Gens : session'[g] \notin {"connecting", "open"}
       /\ streamRef' = 0
       /\ \A g \in Gens : stream'[g] # "live"
       /\ audioContextInRef' = 0
       /\ audioContextOutRef' = 0
       /\ \A g \in Gens : ctxIn'[g] # "running" /\ ctxOut'[g] # "running"
       /\ sourcesRef' = {}
       /\ nextStartTimeRef' = 0]_vars

\* C8: stopSession swallows the failure of any teardown operation: it does
\* not throw and still carries out every remaining teardown step.
C8_TeardownCompletes ==
  [][lastAct'.stop =>
       /\ ~thrown'
       /\ sessionRef' = 0
       /\ streamRef' = 0
       /\ audioContextInRef' = 0
       /\ audioContextOutRef' = 0
       /\ sourcesRef' = {}
       /\ nextStartTimeRef' = 0]_vars

\* C9: every status change is idle -> connecting, connecting -> listening,
\* listening -> idle, a change to error out of connecting or listening, or
\* error -> idle.
StatusChanges ==
  {<<"idle", "connecting">>, <<"connecting", "listening">>,
   <<"listening", "idle">>, <<"connecting", "error">>,
   <<"listening", "error">>, <<"error", "idle">>}

C9_Transitions ==
  [][status' # status => <<status, status'>> \in StatusChanges]_vars

\* the remote sessions that are being connected or are open
LiveSessions == {g \in Gens : session[g] \in {"connecting", "open"}}

\* C10: at most one remote session is being connected or is open at any
\* time; a startSession cannot create a second one while an earlier one has
\* not been stopped.
C10_AtMostOneSession == Cardinality(LiveSessions) <= 1

\* C17: nextScheduledStartTime never decreases while audio chunks are being
\* enqueued; the only handlers that lower it are the interruption branch of
\* onmessage and stopSession.
C17_Monotonic ==
  [][nextStartTimeRef' < nextStartTimeRef => lastAct'.intr \/ lastAct'.stop
    ]_vars

C17_Witness ==
  /\ lastAct.enq
  /\ ~lastAct.intr
  /\ sched.n >= 2
  /\ sched.clean
  /\ nextStartTimeRef = sched.end
  /\ sched.end > sched.prevEnd


\* the step ran lines 198-215 of an event that had something for them: it
\* appended a fragment, flushed a turn or applied an interruption
Processed ==
  /\ ~lastAct'.stop
  /\ \/ currentInputRef' # currentInputRef
     \/ currentOutputRef' # currentOutputRef
     \/ lastAct'.flush
     \/ lastAct'.intr

\* C11: inbound events are processed in arrival order: when a fragment, a
\* turn-complete or an interruption of an event is processed, every fragment
\* of every event that arrived before it has been appended, also when the
\* earlier event carries an audio chunk.
C11_ArrivalOrder ==
  [][Processed =>
       \A k \in pending' :
          k.msg.hasIn \/ k.msg.hasOut =>
            /\ msgCount' = msgCount
            /\ \A d \in pending \ pending' : k.id > d.id]_vars


\* C12: audio chunks are scheduled in arrival order: when chunk A was given
\* its start time, the event of chunk B arrived after the event of A, and no
\* interruption and no stopSession ran between the two arrivals, the start
\* time given to A is less than or equal to the one given to B.
C12_ArrivalOrder ==
  sched.n >= 2 /\ sched.ordered => sched.prevStart <= sched.start

\* C18: once an interruption has been processed, no chunk whose event arrived
\* before the event of that interruption is started or added to the
\* in-flight set.
C18_NoStaleChunk == lastAct.enq => sched.id >= sched.intr


\* C19: from the end of a stopSession to the next startSession, that is while
\* the status is idle, the in-flight set is empty, nextScheduledStartTime is
\* 0 and both accumulators are empty, whatever handlers of the stopped
\* session were suspended or run later.
C19_QuietAfterStop ==
  status = "idle" =>
    /\ sourcesRef = {}
    /\ nextStartTimeRef = 0
    /\ currentInputRef = <<>>
    /\ currentOutputRef = <<>>

\* C20: between handlers, the recording flag is true exactly when the status
\* is listening.
C20_RecordingIffListening == isRecording <=> status = "listening"


\* startSession g ends at the await of getUserMedia or at the creation of
\* the audio contexts
DeviceFailure(g) == startPc[g] = "getUserMedia" /\ startPc'[g] = "done"

\* C13: when startSession fails to obtain the microphone or to create an
\* audio context, the status becomes error and a non-empty error message is
\* set, and that startSession never connects a remote session.
C13_DeviceError ==
  [][\A g \in Gens :
       /\ DeviceFailure(g) =>
            status' = "error" /\ errorMessage' # "" /\ session'[g] = "none"
       /\ startPc[g] = "done" /\ session[g] = "none" =>
            session'[g] = "none"]_vars

C13_Witness ==
  \E g \in Gens :
    /\ startPc[g] = "done"
    /\ session[g] = "none"
    /\ ctxOut[g] = "none"
    /\ stream[g] = "live"
    /\ status = "error"
    /\ errorMessage # ""


\* the remote session g fails: its connection is rejected, or its onerror
\* fires
SessionFailure(g) ==
  \/ session[g] = "connecting" /\ session'[g] = "closed"
  \/ session[g] \in {"connecting", "open"} /\ session'[g] = "errored"

\* the two fixed texts of lines 219 and 227
GenericMessages ==
  {"Translation service error.", "Microphone error or connection failed."}

\* C14: a failure of the remote session, at connection or at run time,
\* results in a full stop (the session is not open, the microphone stream is
\* released, both audio contexts are closed, no source is playing) and in
\* one of the fixed error messages.
C14_TransportError ==
  [][\A g \in Gens :
       SessionFailure(g) =>
         /\ session'[g] \notin {"connecting", "open"}
         /\ stream'[g] # "live"
         /\ ctxIn'[g] # "running"
         /\ ctxOut'[g] # "running"
         /\ sourcesRef' = {}
         /\ \A x \in DOMAIN srcState' : srcState'[x] # "playing"
         /\ errorMessage' \in GenericMessages]_vars


\* the step is a handler that the decoding of its audio payload ended
DecodeFailed ==
  /\ thrown'
  /\ \/ msgCount' # msgCount
     \/ \E h \in pending \ pending' :
          h.msg.audio = BadAudio /\ ctxOut[h.ctx] # "closed"

\* C15: a failed decoding of an inbound audio payload does not end the
\* session: the status, the recording flag, the session and its handle, the
\* microphone stream, the audio contexts and the in-flight set stay as they
\* were, so that the events that arrive afterwards are processed as before.
C15_DecodeError ==
  [][DecodeFailed =>
       UNCHANGED <<isRecording, status, errorMessage, sessionRef, streamRef,
                   audioContextInRef, audioContextOutRef, session, stream,
                   ctxIn, ctxOut, sourcesRef, srcState, transcripts,
                   startPc>>]_vars

\* the first event failed to decode and the chunk of the second one has been
\* scheduled
C15_Witness ==
  /\ status = "listening"
  /\ sessionRef # 0
  /\ msgCount = 2
  /\ pending = {}
  /\ lastAct.enq
  /\ sched.n = 1
  /\ sched.id = 2
  /\ sched.intr = 0


\* the fields of an entry that are fixed when it is created
Core(e) == <<e.id, e.timestamp, e.text, e.translation, e.sourceLang>>

\* C16: the history is append-only: a step that does not shorten the list
\* leaves the id, timestamp, texts and sourceLanguage of every entry, and so
\* their order, as they were, and puts new entries at the end; the list is
\* shortened only by clearHistory, which empties it.
C16_AppendOnly ==
  [][IF Len(transcripts') < Len(transcripts)
     THEN lastAct'.clear /\ transcripts' = <<>>
     ELSE \A i \in 1..Len(transcripts) :
            Core(transcripts'[i]) = Core(transcripts[i])]_vars

C16_Witness ==
  /\ Len(transcripts) = 2
  /\ transcripts[1].text = <<ThaiKo>>
  /\ transcripts[1].role = "Student"
  /\ transcripts[2].text = <<HanNi>>
  /\ transcripts[2].role = "Professor"
  /\ lastAct.flush


\* C21: whenever the status is idle or error, the controller holds no
\* microphone stream, no audio context and no session handle, and no stream,
\* context or session that a start had acquired is still alive.
C21_NothingHeldWhenDown ==
  status \in {"idle", "error"} =>
    /\ streamRef = 0
    /\ audioContextInRef = 0
    /\ audioContextOutRef = 0
    /\ sessionRef = 0
    /\ \A g \in Gens :
         /\ stream[g] # "live"
         /\ ctxIn[g] # "running"
         /\ ctxOut[g] # "running"
         /\ session[g] \notin {"connecting", "open"}

\* the step sends a captured frame to the session of invocation g
FrameSent(g) == capture[g] = "queued" /\ capture'[g] = "idle"

\* C22: captured frames are sent to the remote session only between its
\* on-open and the stop: a frame is sent to a session only while the session
\* is open, never after stopSession has closed it.
C22_FramesWhileOpen ==
  [][\A g \in Gens : FrameSent(g) => session[g] = "open"]_vars

\* C23: when the audio payload of an inbound event cannot be decoded, only
\* the chunk is skipped: the fragments of the event are still appended to the
\* accumulators, a turn-complete of the event still flushes the turn, and an
\* interruption of the event still empties the in-flight set and resets the
\* next start time.
C23_OnlyChunkSkipped ==
  [][DecodeFailed =>
       LET m == lastAct'.failed
           inp == IF m.hasIn THEN currentInputRef \o m.inText
                  ELSE currentInputRef
           out == IF m.hasOut THEN currentOutputRef \o m.outText
                  ELSE currentOutputRef
       IN  /\ ~m.turnComplete =>
                currentInputRef' = inp /\ currentOutputRef' = out
           /\ m.turnComplete =>
                /\ Cleared
                /\ NonBlank(inp) \/ NonBlank(out) => AppendedOne(inp, out)
           /\ m.interrupted =>
                sourcesRef' = {} /\ nextStartTimeRef' = 0]_vars

\* C24: every playback handle that is in the in-flight set is removed from
\* it at some later time (by its completion callback, by an interruption or
\* by stopSession), given that every started playback ends.
C24_EventuallyRemoved ==
  \A s \in Handles : (s \in sourcesRef) ~> (s \notin sourcesRef)

\* the second source is in flight and the first one, started before it, has
\* ended and is out of the set without an interruption or a stop
C24_Witness ==
  /\ sourcesRef = {2}
  /\ DOMAIN srcState = {1, 2}
  /\ srcState[1] = "ended"
  /\ sched.reset = -1
  /\ status = "listening"

\* the step changed the role of an entry of the history
RoleChanged ==
  /\ Len(transcripts') = Len(transcripts)
  /\ \E i \in 1..Len(transcripts) : transcripts'[i].role # transcripts[i].role

\* the history hist after the role of its entry i alone was flipped
FlippedAt(hist, i) ==
  [j \in 1..Len(hist) |->
     IF j = i
     THEN [hist[j] EXCEPT !.role = IF @ = "Professor" THEN "Student"
                                   ELSE "Professor"]
     ELSE hist[j]]

\* C25: toggleRole(id) flips the role, between Professor and Student, of
\* exactly one entry, the one identified by id, and leaves every other entry,
\* every other field and the order of the history as they were; flipping the
\* same entry once more gives the original history back.
C25_ToggleExactlyOne ==
  [][RoleChanged =>
       \E i \in 1..Len(transcripts) :
         /\ transcripts' = FlippedAt(transcripts, i)
         /\ FlippedAt(transcripts', i) = transcripts]_vars


====
